---- MODULE Spec2Model ----
(***************************************************************************)
(* Task lifecycle and real-time synchronisation of the SWE agent server:   *)
(* the in-memory Entity Store (MemStorage), the REST handlers that drive   *)
(* the task state machine and the plan review protocol, the timers started *)
(* by task creation, the WebSocket chat handler and the per-task broadcast *)
(* hub.  MemStorage's methods complete without suspending, so awaiting     *)
(* them resumes in a microtask, which Node runs before it serves any other *)
(* request, frame or timer: a handler is atomic up to its next real        *)
(* suspension (a timer, or a call of an external collaborator), and one    *)
(* action is one such run.                                                 *)
(***************************************************************************)
EXTENDS Integers, Sequences, FiniteSets, TLC

\* ---------------------------------------------------------------- bounds
MaxTasks == 2      \* task ids the store can hand out
MaxProcs == 3      \* handlers suspended at a time (timers, collaborator calls)
MaxOps   == 3      \* handlers started in one behaviour
MaxConns == 1      \* WebSocket connections opened in one behaviour
MaxClock == 1      \* readings of the wall clock (new Date())
MaxMsgs  == 3      \* direct calls of MemStorage.createMessage (createActivity) in one behaviour

TaskIds == 1..MaxTasks
Procs   == 1..MaxProcs
Conns   == 1..MaxConns

\* ---------------------------------------------------------------- values
Undefined == "undefined"

Statuses == {"pending", "planning", "executing", "review_required", "completed", "failed"}

DefaultAgentStates == [manager |-> "pending", planner |-> "waiting", programmer |-> "waiting"]
ManagerDoneStates  == [manager |-> "complete", planner |-> "active", programmer |-> "waiting"]
PlannerWorkStates  == [manager |-> "complete", planner |-> "working", programmer |-> "waiting"]
ApprovedStates     == [manager |-> "complete", planner |-> "complete", programmer |-> "active"]
RevisingStates     == [manager |-> "complete", planner |-> "revising", programmer |-> "waiting"]
ReviewStates       == [manager |-> "complete", planner |-> "complete", programmer |-> "waiting"]

\* a property read that yields undefined when the object lacks the key
Field(obj, k) == IF k \in DOMAIN obj THEN obj[k] ELSE Undefined

\* request bodies of POST /api/tasks; insertTaskSchema requires only title
CreateBodies ==
  { [description |-> "d"],
    [title |-> "Fix login bug"],
    [title |-> "Fix login bug", status |-> "pending"],
    [title |-> "Fix login bug", status |-> "review_required", progress |-> 50,
     agentStates |-> ReviewStates, plan |-> "plan1"] }

\* request bodies of PATCH /api/tasks/:id (any partial task is accepted)
PatchBodies ==
  { [status |-> "review_required"],
    [status |-> "completed"],
    [status |-> "failed", agentStates |-> [manager |-> "error", planner |-> "waiting", programmer |-> "waiting"]] }

\* request bodies of POST /api/tasks/:id/request-changes
FeedbackBodies == { [other |-> "x"], [feedback |-> ""], [feedback |-> "add unit tests"] }

\* frames a client sends on the socket, after data.toString()
Frames == { [json |-> FALSE],
            [json |-> TRUE, type |-> "ping"],
            [json |-> TRUE, type |-> "chat", content |-> "hi"] }

\* results of the external collaborators
NoResult == [ok |-> FALSE, requiredAgents |-> {}, text |-> Undefined]
AnalysisResults == { [ok |-> TRUE, requiredAgents |-> {"planner", "programmer"}, text |-> Undefined],
                     [ok |-> TRUE, requiredAgents |-> {"programmer"}, text |-> Undefined],
                     NoResult }
ChatResults == { [ok |-> TRUE, requiredAgents |-> {}, text |-> "reply"], NoResult }

\* ---------------------------------------------------------------- state
VARIABLES
  tasks,        \* MemStorage.tasks: task id -> Task
  messages,     \* MemStorage.messages, in insertion order
  activities,   \* MemStorage.activities, in insertion order
  taskSockets,  \* task id -> set of connections (entries exist only when set)
  conns,        \* connection -> [state, taskId]
  published,    \* frames sent by broadcastToTask, in order, with their receivers
  procs,        \* suspended handlers: pending timers and collaborator calls in flight
  response,     \* the last HTTP response sent
  now,          \* the last reading of the wall clock
  started,      \* handlers started so far
  logged        \* lines written by console.error, in order

vars == <<tasks, messages, activities, taskSockets, conns, published, procs, response, now,
          started, logged>>

\* ---------------------------------------------------------------- MemStorage
NoTask == [id |-> 0, title |-> Undefined, status |-> Undefined, progress |-> 0,
           agentStates |-> DefaultAgentStates, plan |-> Undefined,
           metadata |-> Undefined, createdAt |-> 0, updatedAt |-> 0]

getTask(id) == IF id \in DOMAIN tasks THEN tasks[id] ELSE NoTask
hasTask(id) == id \in DOMAIN tasks

createTask(insertTask, id, t) ==
  [ id          |-> id,
    title       |-> Field(insertTask, "title"),
    status      |-> Field(insertTask, "status"),
    progress    |-> IF "progress" \in DOMAIN insertTask /\ insertTask.progress # 0
                    THEN insertTask.progress ELSE 0,
    agentStates |-> IF "agentStates" \in DOMAIN insertTask
                    THEN insertTask.agentStates ELSE DefaultAgentStates,
    plan        |-> Field(insertTask, "plan"),
    metadata    |-> Field(insertTask, "metadata"),
    createdAt   |-> t,
    updatedAt   |-> t ]

updateTask(task, updates, t) == [updatedAt |-> t] @@ updates @@ task

createMessage(insertMessage, t) ==
  [ taskId    |-> insertMessage.taskId,
    sender    |-> insertMessage.sender,
    content   |-> insertMessage.content,
    type      |-> insertMessage.type,
    metadata  |-> "{}",
    createdAt |-> t ]

\* an activity stored without the reference to its task
createActivity_Unlinked(insertActivity, t) ==
  [ type        |-> insertActivity.type,
    description |-> insertActivity.description,
    taskId      |-> 0,
    userId      |-> Field(insertActivity, "userId"),
    metadata    |-> "{}",
    createdAt   |-> t ]

createActivity(insertActivity, t) ==
  [ type        |-> insertActivity.type,
    description |-> insertActivity.description,
    taskId      |-> insertActivity.taskId,
    userId      |-> Field(insertActivity, "userId"),
    metadata    |-> "{}",
    createdAt   |-> t ]

RECURSIVE FilterSeq(_, _)
FilterSeq(s, taskId) ==
  IF s = <<>> THEN <<>>
  ELSE IF Head(s).taskId = taskId
       THEN <<Head(s)>> \o FilterSeq(Tail(s), taskId)
       ELSE FilterSeq(Tail(s), taskId)

\* insertion that puts m ahead of the messages with its own createdAt, as a
\* sort that is not stable may
RECURSIVE InsertSorted_Unstable(_, _)
InsertSorted_Unstable(s, m) ==
  IF s = <<>> THEN <<m>>
  ELSE IF Head(s).createdAt < m.createdAt
       THEN <<Head(s)>> \o InsertSorted_Unstable(Tail(s), m)
       ELSE <<m>> \o s

\* stable insertion of m into a list sorted by createdAt
RECURSIVE InsertSorted(_, _)
InsertSorted(s, m) ==
  IF s = <<>> THEN <<m>>
  ELSE IF Head(s).createdAt <= m.createdAt
       THEN <<Head(s)>> \o InsertSorted(Tail(s), m)
       ELSE <<m>> \o s

RECURSIVE SortByCreatedAt(_)
SortByCreatedAt(s) ==
  IF s = <<>> THEN <<>>
  ELSE InsertSorted(SortByCreatedAt(SubSeq(s, 1, Len(s) - 1)), s[Len(s)])

\* the retrieval with the comparator of getActivitiesByUser: latest first
getMessagesByTask_Descending(msgs, taskId) ==
  LET sorted == SortByCreatedAt(FilterSeq(msgs, taskId)) IN
    [i \in 1..Len(sorted) |-> sorted[Len(sorted) + 1 - i]]
getMessagesByTask(msgs, taskId) == SortByCreatedAt(FilterSeq(msgs, taskId))

\* stable insertion of a into a list sorted by createdAt, latest first
RECURSIVE InsertSortedDesc(_, _)
InsertSortedDesc(s, a) ==
  IF s = <<>> THEN <<a>>
  ELSE IF Head(s).createdAt >= a.createdAt
       THEN <<Head(s)>> \o InsertSortedDesc(Tail(s), a)
       ELSE <<a>> \o s

RECURSIVE SortByCreatedAtDesc(_)
SortByCreatedAtDesc(s) ==
  IF s = <<>> THEN <<>>
  ELSE InsertSortedDesc(SortByCreatedAtDesc(SubSeq(s, 1, Len(s) - 1)), s[Len(s)])

\* Array.prototype.slice(0, limit)
Slice(s, limit) ==
  IF limit >= 0
  THEN SubSeq(s, 1, IF limit < Len(s) THEN limit ELSE Len(s))
  ELSE SubSeq(s, 1, IF Len(s) + limit > 0 THEN Len(s) + limit ELSE 0)

getActivitiesByUser(acts, userId, limit) ==
  Slice(SortByCreatedAtDesc(SelectSeq(acts, LAMBDA a : a.userId = userId)), limit)

\* ---------------------------------------------------------------- dashboard
\* the agent shown as active for a task (the case of no task is not a task)
getActiveAgent(task) ==
  IF task.agentStates.programmer = "working" THEN "programmer"
  ELSE IF task.agentStates.planner = "working" THEN "planner"
  ELSE IF task.agentStates.manager = "active" THEN "manager"
  ELSE Undefined

\* ---------------------------------------------------------------- hub
\* the clients of a task id without the readyState test
OpenClients_NoReadyState(taskId) ==
  IF taskId \in DOMAIN taskSockets THEN taskSockets[taskId] ELSE {}
OpenClients(taskId) ==
  IF taskId \in DOMAIN taskSockets
  THEN { c \in taskSockets[taskId] : conns[c].state = "open" }
  ELSE {}

\* every connection whose readyState is OPEN
OpenConns == { c \in Conns : conns[c].state = "open" }

\* a broadcast to every open connection, whatever its task id
broadcastToTask_All(pub, taskId, data) ==
  Append(pub, [taskId |-> taskId, to |-> OpenConns, open |-> OpenConns] @@ data)

\* the log after broadcastToTask(taskId, data) on log pub: the call, the
\* connections the frame was sent to (none when the task id has no entry)
\* and, for reference, the connections that were open at the call
broadcastToTask(pub, taskId, data) ==
  Append(pub, [taskId |-> taskId, to |-> OpenClients(taskId), open |-> OpenConns] @@ data)

Event(type, task, msgs, feedback) ==
  [type |-> type, task |-> task, messages |-> msgs, feedback |-> feedback]

\* ---------------------------------------------------------------- processes
NoBody == [none |-> TRUE]
NoResp == [seq |-> 0, kind |-> "none", id |-> 0, body |-> NoBody, code |-> 0, task |-> NoTask]
Resp(kind, id, body, code, task) ==
  [seq |-> started + 1, kind |-> kind, id |-> id, body |-> body, code |-> code, task |-> task]

Idle == [pc |-> "idle", id |-> 0, task |-> NoTask, conn |-> 0, body |-> NoBody]

\* console.error(label, error) in a catch block of a handler for task id
LogLine(label, cause, id) == [error |-> label, cause |-> cause, id |-> id]

Free(p) == procs[p].pc = "idle"
CanStart == started < MaxOps
\* a handler that suspends is kept in the first free slot
FirstFree(p) == Free(p) /\ \A q \in Procs : q < p => ~Free(q)
\* randomUUID(): an id no stored task has
FreshId(id) == id \in TaskIds \ DOMAIN tasks /\ \A k \in TaskIds \ DOMAIN tasks : id <= k

Init ==
  /\ tasks = [t \in {} |-> NoTask]
  /\ messages = <<>>
  /\ activities = <<>>
  /\ taskSockets = [t \in {} |-> {}]
  /\ conns = [c \in Conns |-> [state |-> "new", taskId |-> 0]]
  /\ published = <<>>
  /\ procs = [p \in Procs |-> Idle]
  /\ response = NoResp
  /\ now = 0
  /\ started = 0
  /\ logged = <<>>

\* arguments of storage.createMessage
InsertMessages ==
  { [taskId |-> t, sender |-> "user", content |-> c, type |-> "chat"] :
      t \in TaskIds, c \in {"hi", "add unit tests"} }

\* a call of storage.createMessage, by any caller
CreateMessage(insertMessage) ==
  /\ Len(messages) < MaxMsgs
  /\ messages' = Append(messages, createMessage(insertMessage, now))
  /\ UNCHANGED <<tasks, activities, taskSockets, conns, published, procs, response, now,
                 started, logged>>

\* arguments of storage.createActivity
Users == {"u1", "u2"}
InsertActivities ==
  { [type |-> "task_created", description |-> d, taskId |-> 1, userId |-> u] :
      d \in {"a", "b"}, u \in Users }

\* a call of storage.createActivity, by any caller
CreateActivity(insertActivity) ==
  /\ Len(activities) < MaxMsgs
  /\ activities' = Append(activities, createActivity(insertActivity, now))
  /\ UNCHANGED <<tasks, messages, taskSockets, conns, published, procs, response, now,
                 started, logged>>

\* query strings of GET /api/activities/user/:userId: without limit, or with one
Queries == { [other |-> "x"], [limit |-> 0], [limit |-> 1], [limit |-> 2] }

\* parseInt(req.query.limit) || 10
ParseLimit(query) ==
  IF "limit" \in DOMAIN query /\ query.limit # 0 THEN query.limit ELSE 10

\* GET /api/activities/user/:userId: the body of the answer
GetActivities(userId, query) == getActivitiesByUser(activities, userId, ParseLimit(query))

\* time passes between two runs; new Date() reads now, and the wall clock is
\* taken not to be set back.  SpecStore advances it; Spec, SpecHub and
\* SpecChat leave it at its initial reading, as none of their properties
\* compares timestamps.
Tick ==
  /\ now < MaxClock
  /\ now' = now + 1
  /\ UNCHANGED <<tasks, messages, activities, taskSockets, conns, published, procs, response, started, logged>>

\* ---------------------------------------------------------------- POST /api/tasks
\* parse, createTask, createActivity(task_created), setTimeout(1000), 201
PostTasks(p, body) ==
  /\ CanStart
  /\ started' = started + 1
  /\ IF "title" \notin DOMAIN body
     THEN /\ response' = Resp("createTask", 0, body, 400, NoTask)
          /\ UNCHANGED <<tasks, activities, procs>>
     ELSE /\ FirstFree(p)
          /\ \E id \in TaskIds :
               LET task == createTask(body, id, now) IN
               /\ FreshId(id)
               /\ tasks' = (id :> task) @@ tasks
               /\ activities' = Append(activities,
                     createActivity([type |-> "task_created",
                                     description |-> <<"New task created: ", task.title>>,
                                     taskId |-> task.id,
                          userId |-> Field(task, "userId")], now))
               /\ procs' = [procs EXCEPT ![p] = [Idle EXCEPT !.pc = "manager_timer",
                                                             !.id = id, !.task = task]]
               /\ response' = Resp("createTask", id, body, 201, task)
  /\ UNCHANGED <<messages, taskSockets, conns, published, now, logged>>

\* the timer fires: aiService.managerAnalyzeTask is called and awaited
ManagerTimer_Fire(p) ==
  /\ procs[p].pc = "manager_timer"
  /\ procs' = [procs EXCEPT ![p].pc = "manager_ai"]
  /\ UNCHANGED <<tasks, messages, activities, taskSockets, conns, published, response, now, started, logged>>

\* the update of the analysis callback without the status
ManagerUpdates_AgentsOnly == [agentStates |-> ManagerDoneStates, metadata |-> "managerAnalysis"]

ManagerUpdates == [agentStates |-> ManagerDoneStates, status |-> "planning",
                   metadata |-> "managerAnalysis"]

\* the collaborator answers (or throws: caught and logged): updateTask,
\* broadcast of the task read back, and the planner phase timer
ManagerTimer_Analysis(p, analysis) ==
  /\ procs[p].pc = "manager_ai"
  /\ IF ~analysis.ok
     THEN /\ procs' = [procs EXCEPT ![p] = Idle]
          /\ logged' = Append(logged, LogLine("Manager analysis error", "Task analysis failed", procs[p].task.id))
          /\ UNCHANGED <<tasks, published>>
     ELSE /\ UNCHANGED logged
          /\ tasks' = IF hasTask(procs[p].task.id)
                      THEN [tasks EXCEPT ![procs[p].task.id] = updateTask(@, ManagerUpdates, now)]
                      ELSE tasks
          /\ published' = broadcastToTask(published, procs[p].task.id,
                             Event("task_updated",
                                   IF procs[p].task.id \in DOMAIN tasks'
                                   THEN tasks'[procs[p].task.id] ELSE NoTask,
                                   <<>>, Undefined))
          /\ procs' = [procs EXCEPT ![p] = IF "planner" \in analysis.requiredAgents
                                           THEN [@ EXCEPT !.pc = "planner_timer"]
                                           ELSE Idle]
  /\ UNCHANGED <<messages, activities, taskSockets, conns, response, now, started>>

\* the nested timer fires: updateTask({agentStates: planner working}), broadcast
PlannerTimer(p) ==
  /\ procs[p].pc = "planner_timer"
  /\ tasks' = IF hasTask(procs[p].task.id)
              THEN [tasks EXCEPT ![procs[p].task.id] =
                      updateTask(@, [agentStates |-> PlannerWorkStates], now)]
              ELSE tasks
  /\ published' = broadcastToTask(published, procs[p].task.id,
                     Event("task_updated",
                           IF procs[p].task.id \in DOMAIN tasks'
                           THEN tasks'[procs[p].task.id] ELSE NoTask,
                           <<>>, Undefined))
  /\ procs' = [procs EXCEPT ![p] = Idle]
  /\ UNCHANGED <<messages, activities, taskSockets, conns, response, now, started, logged>>

\* ---------------------------------------------------------------- PATCH /api/tasks/:id
\* request bodies of PATCH that name the key or the creation time
KeyPatchBodies == { [id |-> 9], [createdAt |-> 9], [status |-> "completed", id |-> 9],
                    [id |-> 2] }

\* the handler with an update that stores the fields under an id the store
\* does not hold, and broadcasts them
PatchTask_Upsert(id, body) ==
  /\ CanStart
  /\ started' = started + 1
  /\ LET task == updateTask(IF hasTask(id) THEN tasks[id] ELSE [NoTask EXCEPT !.id = id],
                            body, now) IN
       /\ tasks' = (id :> task) @@ tasks
       /\ published' = broadcastToTask(published, task.id,
                          Event("task_updated", task, <<>>, Undefined))
       /\ response' = Resp("patchTask", id, body, 200, task)
  /\ UNCHANGED <<messages, activities, taskSockets, conns, procs, now, logged>>

\* the handler with a broadcast that drops the connections it skipped
PatchTask_Prune(id, body) ==
  /\ CanStart
  /\ started' = started + 1
  /\ IF ~hasTask(id)
     THEN /\ response' = Resp("patchTask", id, body, 404, NoTask)
          /\ UNCHANGED <<tasks, published, taskSockets>>
     ELSE LET task == updateTask(tasks[id], body, now) IN
            /\ tasks' = [tasks EXCEPT ![id] = task]
            /\ published' = broadcastToTask(published, task.id,
                               Event("task_updated", task, <<>>, Undefined))
            /\ taskSockets' = [t \in DOMAIN taskSockets |->
                                 IF t = task.id THEN OpenClients(t) ELSE taskSockets[t]]
            /\ response' = Resp("patchTask", id, body, 200, task)
  /\ UNCHANGED <<messages, activities, conns, procs, now, logged>>

\* updateTask(id, req.body); 404 when it returns undefined, else broadcast and answer
PatchTask(id, body) ==
  /\ CanStart
  /\ started' = started + 1
  /\ IF ~hasTask(id)
     THEN /\ response' = Resp("patchTask", id, body, 404, NoTask)
          /\ UNCHANGED <<tasks, published>>
     ELSE LET task == updateTask(tasks[id], body, now) IN
            /\ tasks' = [tasks EXCEPT ![id] = task]
            /\ published' = broadcastToTask(published, task.id,
                               Event("task_updated", task, <<>>, Undefined))
            /\ response' = Resp("patchTask", id, body, 200, task)
  /\ UNCHANGED <<messages, activities, taskSockets, conns, procs, now, logged>>

\* ---------------------------------------------------------------- POST /api/tasks/:id/approve-plan
\* the update without its status
ApproveUpdates_NoStatus == [agentStates |-> ApprovedStates]
ApproveUpdates == [status |-> "executing", agentStates |-> ApprovedStates]

\* the approval that overwrites the latest Activity instead of appending one
ApprovePlan_Apply_Replace(id) ==
    LET task        == tasks[id]
        updatedTask == updateTask(tasks[id], ApproveUpdates, now) IN
    /\ tasks' = [tasks EXCEPT ![id] = updatedTask]
    /\ activities' = [activities EXCEPT ![Len(activities)] =
          createActivity([type |-> "plan_approved",
                          description |-> <<"Plan approved for task: ", task.title>>,
                          taskId |-> task.id,
                          userId |-> Field(task, "userId")], now)]
    /\ published' = broadcastToTask(published, task.id,
                       Event("plan_approved", updatedTask, <<>>, Undefined))
    /\ response' = Resp("approvePlan", id, NoBody, 200, updatedTask)

\* the approval with its broadcast ahead of the store write: the event carries
\* the task read before updateTask
ApprovePlan_Apply_Early(id) ==
    LET task        == tasks[id]
        updatedTask == updateTask(tasks[id], ApproveUpdates, now) IN
    /\ tasks' = [tasks EXCEPT ![id] = updatedTask]
    /\ activities' = Append(activities,
          createActivity([type |-> "plan_approved",
                          description |-> <<"Plan approved for task: ", task.title>>,
                          taskId |-> task.id,
                          userId |-> Field(task, "userId")], now))
    /\ published' = broadcastToTask(published, task.id,
                       Event("plan_approved", task, <<>>, Undefined))
    /\ response' = Resp("approvePlan", id, NoBody, 200, updatedTask)

\* updateTask, createActivity(plan_approved), broadcast, answer
ApprovePlan_Apply(id) ==
    LET task        == tasks[id]
        updatedTask == updateTask(tasks[id], ApproveUpdates, now) IN
    /\ tasks' = [tasks EXCEPT ![id] = updatedTask]
    /\ activities' = Append(activities,
          createActivity([type |-> "plan_approved",
                          description |-> <<"Plan approved for task: ", task.title>>,
                          taskId |-> task.id,
                          userId |-> Field(task, "userId")], now))
    /\ published' = broadcastToTask(published, task.id,
                       Event("plan_approved", updatedTask, <<>>, Undefined))
    /\ response' = Resp("approvePlan", id, NoBody, 200, updatedTask)

\* the handler without its 404 return: a missing task gets the activity and the broadcast
ApprovePlan_NoReturn(id) ==
  /\ CanStart
  /\ started' = started + 1
  /\ IF ~hasTask(id)
     THEN /\ response' = Resp("approvePlan", id, NoBody, 404, NoTask)
          /\ activities' = Append(activities,
                createActivity([type |-> "plan_approved",
                                description |-> <<"Plan approved for task: ", Undefined>>,
                                taskId |-> id], now))
          /\ published' = broadcastToTask(published, id,
                             Event("plan_approved", NoTask, <<>>, Undefined))
          /\ UNCHANGED tasks
     ELSE ApprovePlan_Apply(id)
  /\ UNCHANGED <<messages, taskSockets, conns, procs, now, logged>>

\* getTask; if (!task) 404; else the approval is applied
ApprovePlan(id) ==
  /\ CanStart
  /\ started' = started + 1
  /\ IF ~hasTask(id)
     THEN /\ response' = Resp("approvePlan", id, NoBody, 404, NoTask)
          /\ UNCHANGED <<tasks, activities, published>>
     ELSE ApprovePlan_Apply(id)
  /\ UNCHANGED <<messages, taskSockets, conns, procs, now, logged>>

\* ---------------------------------------------------------------- POST /api/tasks/:id/request-changes
\* the update that also discards the plan on re-entering planning
RequestUpdates_ResetPlan == [agentStates |-> RevisingStates, plan |-> Undefined]

RequestUpdates == [agentStates |-> RevisingStates]

\* the handler whose event carries the task read before the update
RequestChanges_StaleEvent(id, body) ==
  /\ CanStart
  /\ started' = started + 1
  /\ IF ~hasTask(id)
     THEN /\ response' = Resp("requestChanges", id, body, 404, NoTask)
          /\ UNCHANGED <<tasks, messages, published>>
     ELSE LET task        == tasks[id]
              feedback    == Field(body, "feedback")
              updatedTask == updateTask(tasks[id], RequestUpdates, now) IN
            /\ messages' = Append(messages,
                  createMessage([taskId |-> task.id, sender |-> "user",
                                 content |-> feedback, type |-> "plan_feedback"], now))
            /\ tasks' = [tasks EXCEPT ![id] = updatedTask]
            /\ published' = broadcastToTask(published, task.id,
                               Event("plan_changes_requested", task, <<>>, feedback))
            /\ response' = Resp("requestChanges", id, body, 200, updatedTask)
  /\ UNCHANGED <<activities, taskSockets, conns, procs, now, logged>>

\* the handler with an event that does not carry the feedback
RequestChanges_NoFeedback(id, body) ==
  /\ CanStart
  /\ started' = started + 1
  /\ IF ~hasTask(id)
     THEN /\ response' = Resp("requestChanges", id, body, 404, NoTask)
          /\ UNCHANGED <<tasks, messages, published>>
     ELSE LET task        == tasks[id]
              feedback    == Field(body, "feedback")
              updatedTask == updateTask(tasks[id], RequestUpdates, now) IN
            /\ messages' = Append(messages,
                  createMessage([taskId |-> task.id, sender |-> "user",
                                 content |-> feedback, type |-> "plan_feedback"], now))
            /\ tasks' = [tasks EXCEPT ![id] = updatedTask]
            /\ published' = broadcastToTask(published, task.id,
                               Event("plan_changes_requested", updatedTask, <<>>, Undefined))
            /\ response' = Resp("requestChanges", id, body, 200, updatedTask)
  /\ UNCHANGED <<activities, taskSockets, conns, procs, now, logged>>

\* getTask; if (!task) 404; createMessage(plan_feedback), updateTask, broadcast, answer
RequestChanges(id, body) ==
  /\ CanStart
  /\ started' = started + 1
  /\ IF ~hasTask(id)
     THEN /\ response' = Resp("requestChanges", id, body, 404, NoTask)
          /\ UNCHANGED <<tasks, messages, published>>
     ELSE LET task        == tasks[id]
              feedback    == Field(body, "feedback")
              updatedTask == updateTask(tasks[id], RequestUpdates, now) IN
            /\ messages' = Append(messages,
                  createMessage([taskId |-> task.id, sender |-> "user",
                                 content |-> feedback, type |-> "plan_feedback"], now))
            /\ tasks' = [tasks EXCEPT ![id] = updatedTask]
            /\ published' = broadcastToTask(published, task.id,
                               Event("plan_changes_requested", updatedTask, <<>>, feedback))
            /\ response' = Resp("requestChanges", id, body, 200, updatedTask)
  /\ UNCHANGED <<activities, taskSockets, conns, procs, now, logged>>

\* ---------------------------------------------------------------- WebSocket hub
\* wss.on('connection'): register the socket under its taskId query parameter
Connection(c, taskId) ==
  /\ conns[c].state = "new"
  /\ \A d \in Conns : d < c => conns[d].state # "new"
  /\ conns' = [conns EXCEPT ![c] = [state |-> "open", taskId |-> taskId]]
  /\ taskSockets' = IF taskId = 0 THEN taskSockets
                    ELSE IF taskId \in DOMAIN taskSockets
                         THEN [taskSockets EXCEPT ![taskId] = @ \cup {c}]
                         ELSE (taskId :> {c}) @@ taskSockets
  /\ UNCHANGED <<tasks, messages, activities, published, procs, response, now, started, logged>>

\* the transport leaves readyState OPEN before the 'close' event is emitted
Closing(c) ==
  /\ conns[c].state = "open"
  /\ conns' = [conns EXCEPT ![c].state = "closing"]
  /\ UNCHANGED <<tasks, messages, activities, taskSockets, published, procs, response, now, started, logged>>

\* the close handler that leaves the socket in its set
Close_NoDelete(c) ==
  /\ conns[c].state = "closing"
  /\ conns' = [conns EXCEPT ![c].state = "closed"]
  /\ UNCHANGED <<tasks, messages, activities, taskSockets, published, procs, response, now,
                 started, logged>>

\* the close handler without the deletion of an emptied entry
Close_NoPrune(c) ==
  /\ conns[c].state = "closing"
  /\ conns' = [conns EXCEPT ![c].state = "closed"]
  /\ LET t == conns[c].taskId IN
       taskSockets' =
         IF t = 0 \/ t \notin DOMAIN taskSockets THEN taskSockets
         ELSE [taskSockets EXCEPT ![t] = @ \ {c}]
  /\ UNCHANGED <<tasks, messages, activities, published, procs, response, now, started, logged>>

\* ws.on('close'): remove the socket, drop the entry when its set is empty
Close(c) ==
  /\ conns[c].state = "closing"
  /\ conns' = [conns EXCEPT ![c].state = "closed"]
  /\ LET t == conns[c].taskId IN
       taskSockets' =
         IF t = 0 \/ t \notin DOMAIN taskSockets THEN taskSockets
         ELSE IF taskSockets[t] \ {c} = {}
              THEN [k \in DOMAIN taskSockets \ {t} |-> taskSockets[k]]
              ELSE [taskSockets EXCEPT ![t] = @ \ {c}]
  /\ UNCHANGED <<tasks, messages, activities, published, procs, response, now, started, logged>>

\* ---------------------------------------------------------------- ws.on('message')
\* the handler calling the collaborator before it stores the user's message
Chat_Frame_CallFirst(p, c, frame) ==
  /\ CanStart
  /\ conns[c].state = "open"
  /\ started' = started + 1
  /\ IF ~frame.json \/ frame.type # "chat" \/ conns[c].taskId = 0 \/ ~hasTask(conns[c].taskId)
     THEN /\ logged' = IF frame.json THEN logged
                        ELSE Append(logged, LogLine("WebSocket message error", "SyntaxError", conns[c].taskId))
          /\ UNCHANGED <<messages, procs>>
     ELSE /\ FirstFree(p)
          /\ UNCHANGED logged
          /\ UNCHANGED messages
          /\ procs' = [procs EXCEPT ![p] = [Idle EXCEPT !.pc = "chat_ai", !.conn = c,
                                                        !.body = frame,
                                                        !.id = conns[c].taskId,
                                                        !.task = tasks[conns[c].taskId]]]
  /\ UNCHANGED <<tasks, activities, taskSockets, conns, published, response, now>>

\* JSON.parse; for a chat frame of a socket with a task id: getTask, and if it
\* exists createMessage(user), getMessagesByTask, and the collaborator is called
\* the handler without the test that the task exists
Chat_Frame_NoTaskCheck(p, c, frame) ==
  /\ CanStart
  /\ conns[c].state = "open"
  /\ started' = started + 1
  /\ IF ~frame.json \/ frame.type # "chat" \/ conns[c].taskId = 0
     THEN /\ logged' = IF frame.json THEN logged
                        ELSE Append(logged, LogLine("WebSocket message error", "SyntaxError", conns[c].taskId))
          /\ UNCHANGED <<messages, procs>>
     ELSE /\ FirstFree(p)
          /\ UNCHANGED logged
          /\ messages' = Append(messages,
                createMessage([taskId |-> conns[c].taskId, sender |-> "user",
                               content |-> frame.content, type |-> "chat"], now))
          /\ procs' = [procs EXCEPT ![p] = [Idle EXCEPT !.pc = "chat_ai", !.conn = c,
                                                        !.body = frame,
                                                        !.id = conns[c].taskId,
                                                        !.task = getTask(conns[c].taskId)]]
  /\ UNCHANGED <<tasks, activities, taskSockets, conns, published, response, now>>

Chat_Frame(p, c, frame) ==
  /\ CanStart
  /\ conns[c].state = "open"
  /\ started' = started + 1
  /\ IF ~frame.json \/ frame.type # "chat" \/ conns[c].taskId = 0 \/ ~hasTask(conns[c].taskId)
     THEN /\ logged' = IF frame.json THEN logged
                        ELSE Append(logged, LogLine("WebSocket message error", "SyntaxError", conns[c].taskId))
          /\ UNCHANGED <<messages, procs>>
     ELSE /\ FirstFree(p)
          /\ UNCHANGED logged
          /\ messages' = Append(messages,
                createMessage([taskId |-> conns[c].taskId, sender |-> "user",
                               content |-> frame.content, type |-> "chat"], now))
          /\ procs' = [procs EXCEPT ![p] = [Idle EXCEPT !.pc = "chat_ai", !.conn = c,
                                                        !.body = frame,
                                                        !.id = conns[c].taskId,
                                                        !.task = tasks[conns[c].taskId]]]
  /\ UNCHANGED <<tasks, activities, taskSockets, conns, published, response, now>>

\* the handler with a fallback for a failed collaborator: the failure is
\* logged, and a reply is stored and published all the same
Chat_Reply_Fallback(p, reply) ==
  /\ procs[p].pc = "chat_ai"
  /\ procs' = [procs EXCEPT ![p] = Idle]
  /\ logged' = IF reply.ok THEN logged
                ELSE Append(logged, LogLine("WebSocket message error", "Message processing failed", procs[p].id))
  /\ messages' = Append(messages,
        createMessage([taskId |-> procs[p].id,
                       sender |-> IF procs[p].task.status = "planning"
                                  THEN "planner" ELSE "programmer",
                       content |-> reply.text, type |-> "chat"], now))
  /\ published' = broadcastToTask(published, procs[p].id,
                     Event("new_messages", NoTask,
                           getMessagesByTask(messages', procs[p].id), Undefined))
  /\ UNCHANGED <<tasks, activities, taskSockets, conns, response, now, started>>

\* the handler publishing a delta: only the two messages of this exchange
Chat_Reply_Delta(p, reply) ==
  /\ procs[p].pc = "chat_ai"
  /\ procs' = [procs EXCEPT ![p] = Idle]
  /\ IF ~reply.ok
     THEN /\ logged' = Append(logged, LogLine("WebSocket message error", "Message processing failed", procs[p].id))
          /\ UNCHANGED <<messages, published>>
     ELSE   /\ UNCHANGED logged
            /\ messages' = Append(messages,
                  createMessage([taskId |-> procs[p].id,
                                 sender |-> IF procs[p].task.status = "planning"
                                            THEN "planner" ELSE "programmer",
                                 content |-> reply.text, type |-> "chat"], now))
            /\ published' = broadcastToTask(published, procs[p].id,
                               Event("new_messages", NoTask,
                                     SubSeq(messages', Len(messages') - 1, Len(messages')),
                                     Undefined))
  /\ UNCHANGED <<tasks, activities, taskSockets, conns, response, now, started>>

\* the collaborator answers (or throws: caught and logged): createMessage(reply),
\* getMessagesByTask, broadcast new_messages
Chat_Reply(p, reply) ==
  /\ procs[p].pc = "chat_ai"
  /\ procs' = [procs EXCEPT ![p] = Idle]
  /\ IF ~reply.ok
     THEN /\ logged' = Append(logged, LogLine("WebSocket message error", "Message processing failed", procs[p].id))
          /\ UNCHANGED <<messages, published>>
     ELSE   /\ UNCHANGED logged
            /\ messages' = Append(messages,
                  createMessage([taskId |-> procs[p].id,
                                 sender |-> IF procs[p].task.status = "planning"
                                            THEN "planner" ELSE "programmer",
                                 content |-> reply.text, type |-> "chat"], now))
            /\ published' = broadcastToTask(published, procs[p].id,
                               Event("new_messages", NoTask,
                                     getMessagesByTask(messages', procs[p].id), Undefined))
  /\ UNCHANGED <<tasks, activities, taskSockets, conns, response, now, started>>

\* ---------------------------------------------------------------- specification
\* the REST handlers and the timers of task creation
Next ==
  \/ \E p \in Procs, body \in CreateBodies : PostTasks(p, body)
  \/ \E p \in Procs : ManagerTimer_Fire(p)
  \/ \E p \in Procs, analysis \in AnalysisResults : ManagerTimer_Analysis(p, analysis)
  \/ \E p \in Procs : PlannerTimer(p)
  \/ \E id \in TaskIds, body \in PatchBodies : PatchTask(id, body)
  \/ \E id \in TaskIds : ApprovePlan(id)
  \/ \E id \in TaskIds, body \in FeedbackBodies : RequestChanges(id, body)

Spec == Init /\ [][Next]_vars

\* the request bodies used with the hub: a task created pending or already
\* under review, one PATCH, and feedback that is present
HubCreateBodies   == { b \in CreateBodies : "status" \in DOMAIN b }
HubPatchBodies    == { [status |-> "review_required"] }
HubFeedbackBodies == { b \in FeedbackBodies : "feedback" \in DOMAIN b }

\* the PATCH that moves a task into planning while a chat is in flight
ChatPatchBodies == { [status |-> "planning"] }

\* task creation, the hub and chat ingestion, with PATCH as the writer that
\* changes a task while a chat is in flight.  The timers of task creation
\* stay pending here; Spec covers them.
NextChat ==
  \/ \E p \in Procs, body \in HubCreateBodies : PostTasks(p, body)
  \/ \E id \in TaskIds, body \in ChatPatchBodies : PatchTask(id, body)
  \/ \E c \in Conns, taskId \in TaskIds \cup {0} : Connection(c, taskId)
  \/ \E c \in Conns : Closing(c)
  \/ \E c \in Conns : Close(c)
  \/ \E p \in Procs, c \in Conns, frame \in Frames : Chat_Frame(p, c, frame)
  \/ \E p \in Procs, reply \in ChatResults : Chat_Reply(p, reply)

SpecChat == Init /\ [][NextChat]_vars

\* the REST handlers with the subscriber registry: connections open and close
\* around the handlers that publish.  The timers of task creation stay
\* pending here; Spec covers them.
NextHub ==
  \/ \E p \in Procs, body \in HubCreateBodies : PostTasks(p, body)
  \/ \E id \in TaskIds, body \in HubPatchBodies : PatchTask(id, body)
  \/ \E id \in TaskIds : ApprovePlan(id)
  \/ \E id \in TaskIds, body \in HubFeedbackBodies : RequestChanges(id, body)
  \/ \E c \in Conns, taskId \in TaskIds \cup {0} : Connection(c, taskId)
  \/ \E c \in Conns : Closing(c)
  \/ \E c \in Conns : Close(c)

SpecHub == Init /\ [][NextHub]_vars

\* task creation and PATCH with any partial task, the key fields included,
\* and request-changes as a handler that reads the id back from the task
NextPatch ==
  \/ \E p \in Procs, body \in HubCreateBodies : PostTasks(p, body)
  \/ \E id \in TaskIds, body \in PatchBodies \cup KeyPatchBodies : PatchTask(id, body)
  \/ \E id \in TaskIds, body \in HubFeedbackBodies : RequestChanges(id, body)

SpecPatch == Init /\ [][NextPatch]_vars

\* the Entity Store by itself: messages created for any task at any time
NextStore ==
  \/ Tick
  \/ \E insertMessage \in InsertMessages : CreateMessage(insertMessage)

SpecStore == Init /\ [][NextStore]_vars

\* the activities of the Entity Store by themselves, created at any time
NextActivities ==
  \/ Tick
  \/ \E insertActivity \in InsertActivities : CreateActivity(insertActivity)

SpecActivities == Init /\ [][NextActivities]_vars

\* analyses that return (the collaborator call does not throw)
ReturnedAnalyses == { r \in AnalysisResults : r.ok }

\* task creation and its timers when the manager analysis returns, with
\* connections that subscribe to the first task
NextLive ==
  \/ \E p \in Procs, body \in HubCreateBodies : PostTasks(p, body)
  \/ \E p \in Procs : ManagerTimer_Fire(p)
  \/ \E p \in Procs, analysis \in ReturnedAnalyses : ManagerTimer_Analysis(p, analysis)
  \/ \E p \in Procs : PlannerTimer(p)
  \/ \E c \in Conns : Connection(c, 1)

\* a timer that is due fires, and a collaborator call that returns resumes
\* its callback
SpecLive ==
  /\ Init
  /\ [][NextLive]_vars
  /\ \A p \in Procs :
       /\ WF_vars(ManagerTimer_Fire(p))
       /\ WF_vars(\E analysis \in ReturnedAnalyses : ManagerTimer_Analysis(p, analysis))
       /\ WF_vars(PlannerTimer(p))

\* ---------------------------------------------------------------- properties
PlanDecisions == {"approvePlan", "requestChanges"}
\* this step is a run of the handler of the given kinds for task id
Handled(kinds, id) ==
  /\ response'.seq # response.seq
  /\ response'.kind \in kinds
  /\ response'.id = id
\* a typed failure other than NotFound (InvalidState, ValidationError)
IsRejected(resp) == resp.code >= 400 /\ resp.code # 404
IsNotFound(resp) == resp.code = 404
NoEffect == UNCHANGED <<tasks, messages, activities, published>>
NonEmpty(feedback) == feedback \notin {Undefined, ""}
Terminal == {"completed", "failed"}
AllowedEdges ==
  { <<"pending", "planning">>, <<"planning", "review_required">>,
    <<"review_required", "executing">>, <<"review_required", "planning">>,
    <<"executing", "completed">> }
  \cup { <<s, "failed">> : s \in Statuses \ Terminal }

\* C1: approve and request-changes on an existing task whose status is not
\* review_required answer InvalidState and change nothing: the task, the
\* messages, the activities and the published events stay as they were.
C1_InvalidStateIsNoOp ==
  [][\A id \in DOMAIN tasks :
       (Handled(PlanDecisions, id) /\ tasks[id].status # "review_required")
       => (NoEffect /\ IsRejected(response'))]_vars

\* C2: every change of a stored task's status follows an allowed edge of the
\* state machine; in particular pending never becomes executing directly.
C2_OnlyAllowedEdges ==
  [][\A id \in DOMAIN tasks :
       (tasks[id].status \in Statuses /\ tasks'[id].status # tasks[id].status)
       => <<tasks[id].status, tasks'[id].status>> \in AllowedEdges]_vars

\* C3: completed and failed are terminal: no step changes the status of a
\* task that is completed or failed.
C3_TerminalIsFinal ==
  [][\A id \in DOMAIN tasks :
       tasks[id].status \in Terminal => tasks'[id].status = tasks[id].status]_vars

\* a chat ingestion has read its task and written the user's message, and
\* waits for the collaborator before it writes the reply
InProgress(p) == procs[p].pc = "chat_ai"

\* C4: per-task serialisation: no two read-then-write operations on the same
\* task id are in progress at the same time.
C4_PerTaskSerialization ==
  \A p, q \in Procs :
    (p # q /\ InProgress(p) /\ InProgress(q)) => procs[p].id # procs[q].id

\* C5: every task that create task stores and returns has status pending,
\* the default agentStates and progress 0.
C5_CreatedTaskDefaults ==
  [][\A id \in DOMAIN tasks' \ DOMAIN tasks :
       /\ tasks'[id].status = "pending"
       /\ tasks'[id].agentStates = DefaultAgentStates
       /\ tasks'[id].progress = 0
       /\ response'.task = tasks'[id]]_vars

\* C6: approve on a task whose status is review_required stores status
\* executing with agentStates {manager: complete, planner: complete,
\* programmer: active}, and answers with the Task as stored.
C6_ApproveEffect ==
  [][\A id \in DOMAIN tasks :
       (Handled({"approvePlan"}, id) /\ tasks[id].status = "review_required")
       => ( /\ tasks'[id].status = "executing"
            /\ tasks'[id].agentStates = ApprovedStates
            /\ response'.code = 200
            /\ response'.task = tasks'[id] )]_vars

\* a task was published as review_required and the very next event is its
\* plan_approved, answered with the executing task
C6_Witness ==
  /\ response.kind = "approvePlan" /\ response.code = 200
  /\ response.task.status = "executing"
  /\ \E i \in 1..(Len(published) - 1) :
       /\ published[i].type = "task_updated"
       /\ published[i].task.status = "review_required"
       /\ published[i + 1].type = "plan_approved"
       /\ published[i + 1].taskId = published[i].taskId
       /\ published[i + 1].task = response.task

\* C7: request-changes with non-empty feedback on a review_required task
\* stores status planning with planner revising and programmer waiting, and
\* leaves the manager's substate as it was.
C7_RequestChangesEffect ==
  [][\A id \in DOMAIN tasks :
       ( /\ Handled({"requestChanges"}, id)
         /\ NonEmpty(Field(response'.body, "feedback"))
         /\ tasks[id].status = "review_required" )
       => ( /\ tasks'[id].status = "planning"
            /\ tasks'[id].agentStates.planner = "revising"
            /\ tasks'[id].agentStates.programmer = "waiting"
            /\ tasks'[id].agentStates.manager = tasks[id].agentStates.manager )]_vars

\* C8: request-changes with empty or missing feedback is rejected with a
\* ValidationError: no message is appended, no task is changed and nothing is
\* published.
C8_EmptyFeedbackRejected ==
  [][\A id \in DOMAIN tasks :
       ( /\ Handled({"requestChanges"}, id)
         /\ ~NonEmpty(Field(response'.body, "feedback")) )
       => (NoEffect /\ IsRejected(response'))]_vars

\* C9: approve and request-changes on a task id the store does not hold
\* answer NotFound and change nothing: no task, message or activity is
\* created or changed and nothing is published.
C9_NotFoundIsNoOp ==
  [][\A id \in TaskIds \ DOMAIN tasks :
       Handled(PlanDecisions, id) => (NoEffect /\ IsNotFound(response'))]_vars

\* an approve of a task id the store does not hold has been answered
C9_Witness ==
  /\ response.kind = "approvePlan"
  /\ response.id \notin DOMAIN tasks
  /\ response.code = 404

\* C10: the manager-analysis result of a task created pending is applied only
\* while the task is still pending, and then stores status planning with
\* agentStates {manager: complete, planner: active, programmer: waiting};
\* otherwise the task is not mutated.
C10_ManagerAnalysisOnlyFromPending ==
  [][\A p \in Procs :
       ( /\ procs[p].pc = "manager_ai"
         /\ procs'[p].pc # "manager_ai"
         /\ published' # published
         /\ procs[p].task.status = "pending" )
       => IF tasks[procs[p].id].status = "pending"
          THEN /\ tasks'[procs[p].id].status = "planning"
               /\ tasks'[procs[p].id].agentStates = ManagerDoneStates
          ELSE tasks'[procs[p].id] = tasks[procs[p].id]]_vars

\* C11: subscriber isolation: a connection never receives an event published
\* for a task id other than the one it subscribed to.
C11_SubscriberIsolation ==
  \A i \in 1..Len(published) :
    \A c \in published[i].to : conns[c].taskId = published[i].taskId

\* an event was published for one task while a connection subscribed to
\* another task was open, and it was not sent to that connection
C11_Witness ==
  \E i \in 1..Len(published) :
    \E c \in published[i].open :
      /\ conns[c].taskId \notin {0, published[i].taskId}
      /\ c \notin published[i].to

\* C12: a publish for a task id is delivered to each connection that is in
\* the task id's subscriber set and open at publish time, once (the receivers
\* of one publish are a set), and to no other connection; a connection that
\* closed before the publish does not receive it.
C12_DeliveredToOpenSubscribers ==
  \A i \in 1..Len(published) :
    published[i].to =
      { c \in published[i].open : conns[c].taskId = published[i].taskId }

\* a connection received an event of its task, closed, and a later event of
\* the same task was published without it
C12_Witness ==
  \E i, j \in 1..Len(published) :
    /\ i < j
    /\ published[i].taskId = published[j].taskId
    /\ \E c \in published[i].to :
         /\ conns[c].state = "closed"
         /\ c \notin published[j].open
         /\ c \notin published[j].to

\* C13: pruning invariant: the subscriber registry never maps a task id to an
\* empty set; the entry is removed when its last subscriber closes.
C13_NoEmptyEntry ==
  \A t \in DOMAIN taskSockets : taskSockets[t] # {}

\* the last subscriber of a task id has closed and the entry is gone
C13_Witness ==
  \E c \in Conns :
    /\ conns[c].state = "closed"
    /\ conns[c].taskId # 0
    /\ conns[c].taskId \notin DOMAIN taskSockets

\* C14: a publish never mutates the subscriber registry: for a task id with
\* no entry it delivers nothing and creates no entry, and connections that
\* are not open are skipped and stay in their set.
C14_PublishLeavesRegistry ==
  [][published' # published =>
       /\ UNCHANGED <<taskSockets, conns>>
       /\ Len(published') = Len(published) + 1
       /\ LET e == published'[Len(published')] IN
            e.taskId \notin DOMAIN taskSockets => e.to = {}]_vars

\* a connection that is closing was skipped by a publish for its task, after
\* it had received an earlier one, and is still in the set of the task id
C14_Witness ==
  \E c \in Conns :
    /\ conns[c].state = "closing"
    /\ conns[c].taskId \in DOMAIN taskSockets
    /\ c \in taskSockets[conns[c].taskId]
    /\ \E i, j \in 1..Len(published) :
         /\ i < j
         /\ published[i].taskId = conns[c].taskId
         /\ published[j].taskId = conns[c].taskId
         /\ c \in published[i].to
         /\ c \notin published[j].to

TaskEvents == {"task_updated", "plan_approved", "plan_changes_requested"}

\* C15: broadcast-after-commit: whenever an event carrying a task
\* (task_updated, plan_approved, plan_changes_requested) is published, the
\* store already holds that task: the event's task is the stored task.
C15_BroadcastAfterCommit ==
  [][published' # published =>
       LET e == published'[Len(published')] IN
         e.type \in TaskEvents =>
           /\ e.taskId \in DOMAIN tasks'
           /\ e.task = tasks'[e.taskId]]_vars

\* an event of each of the three kinds has been published with its task
C15_Witness ==
  \A type \in TaskEvents :
    \E i \in 1..Len(published) :
      /\ published[i].type = type
      /\ published[i].task.id = published[i].taskId

Agents == {"planner", "programmer"}
IsUserChat(m, taskId, content) ==
  m.taskId = taskId /\ m.sender = "user" /\ m.type = "chat" /\ m.content = content
IsReply(m, taskId) ==
  m.taskId = taskId /\ m.sender \in Agents /\ m.type = "chat"
Last(s) == s[Len(s)]

\* C16: chat ingestion keeps its order for every chat frame on an existing
\* task: the user's Message is stored when the collaborator is invoked, a
\* reply Message is appended only for an invocation that is outstanding, and
\* new_messages is published only in the run that has stored the reply, with
\* the user's Message stored before it.
C16_ChatOrder ==
  [][/\ \A p \in Procs :
          (procs[p].pc # "chat_ai" /\ procs'[p].pc = "chat_ai")
          => /\ Len(messages') = Len(messages) + 1
             /\ messages' = Append(messages, Last(messages'))
             /\ IsUserChat(Last(messages'), procs'[p].id, procs'[p].body.content)
             /\ published' = published
     /\ (Len(messages') > Len(messages) /\ Last(messages').sender \in Agents)
          => \E p \in Procs :
               /\ procs[p].pc = "chat_ai" /\ procs'[p].pc = "idle"
               /\ messages' = Append(messages, Last(messages'))
               /\ IsReply(Last(messages'), procs[p].id)
               /\ published' # published
     /\ (published' # published /\ Last(published').type = "new_messages")
          => \E p \in Procs :
               /\ procs[p].pc = "chat_ai" /\ procs'[p].pc = "idle"
               /\ Last(published').taskId = procs[p].id
               /\ \E k \in 1..Len(messages) :
                    IsUserChat(messages[k], procs[p].id, procs[p].body.content)
               /\ Len(messages') = Len(messages) + 1
               /\ IsReply(Last(messages'), procs[p].id)
               /\ \E k \in 1..Len(Last(published').messages) :
                    Last(published').messages[k] = Last(messages')
    ]_vars

\* a chat frame has gone through all four steps: new_messages was published
\* with the user's Message and, after it, the reply
C16_Witness ==
  /\ published # <<>>
  /\ Last(published).type = "new_messages"
  /\ \E i, j \in 1..Len(Last(published).messages) :
       /\ i < j
       /\ IsUserChat(Last(published).messages[i], Last(published).taskId, "hi")
       /\ IsReply(Last(published).messages[j], Last(published).taskId)
       /\ Last(published).messages[j] = Last(messages)

\* this step is the catch block of the chat handler of p, entered because the
\* collaborator call failed
CollaboratorFailed(p) ==
  /\ procs[p].pc = "chat_ai"
  /\ procs'[p].pc = "idle"
  /\ Len(logged') = Len(logged) + 1
  /\ Last(logged').cause = "Message processing failed"

\* C17: a failure of the conversational collaborator during chat ingestion is
\* caught inside the handler: no reply Message is appended, no new_messages is
\* published, the tasks are as they were, and the connection that sent the
\* frame stays open and subscribed.
C17_CollaboratorFailureCaught ==
  [][\A p \in Procs :
       CollaboratorFailed(p)
       => /\ messages' = messages
          /\ published' = published
          /\ tasks' = tasks
          /\ conns' = conns
          /\ taskSockets' = taskSockets]_vars

\* the collaborator has failed for a chat frame: the failure is logged, the
\* user's Message is the last one stored, nothing was published, and the
\* sender is still open and subscribed
C17_Witness ==
  /\ logged # <<>>
  /\ Last(logged).cause = "Message processing failed"
  /\ messages # <<>>
  /\ IsUserChat(Last(messages), Last(logged).id, "hi")
  /\ published = <<>>
  /\ \E c \in OpenClients(Last(logged).id) : conns[c].taskId = Last(logged).id

\* the messages created for a task, in the order of their createMessage calls
CreatedFor(taskId) == SelectSeq(messages, LAMBDA m : m.taskId = taskId)

\* C18: message ordering: for every task, getMessagesByTask returns exactly
\* the messages created for it, in the order of their creation, none dropped,
\* duplicated or reordered, also when messages share a createdAt value and
\* when messages of other tasks were created in between.
C18_MessagesInInsertionOrder ==
  \A taskId \in TaskIds : getMessagesByTask(messages, taskId) = CreatedFor(taskId)

\* two different messages of one task share their createdAt, with a message
\* of another task created between them
C18_Witness ==
  /\ Len(messages) >= 3
  /\ messages[1].taskId = messages[3].taskId
  /\ messages[2].taskId # messages[1].taskId
  /\ messages[1].createdAt = messages[3].createdAt
  /\ messages[1].content # messages[3].content
  /\ getMessagesByTask(messages, messages[1].taskId) = <<messages[1], messages[3]>>

\* the connections subscribed to a task id that are open
Subscribers(taskId) ==
  { c \in Conns : conns[c].state = "open" /\ conns[c].taskId = taskId }

C21_UpdateKeepsKeyAndCreatedAt ==
  [][\A id \in DOMAIN tasks :
       /\ tasks'[id].id = id
       /\ tasks'[id].createdAt = tasks[id].createdAt]_vars

\* C22: an update of a task id the store does not hold answers NotFound and
\* changes nothing: no task is created, the store is as it was and no
\* task_updated event is broadcast.
C22_UpdateMissingIsNoOp ==
  [][\A id \in TaskIds \ DOMAIN tasks :
       Handled({"patchTask"}, id) => (NoEffect /\ IsNotFound(response'))]_vars

\* a PATCH of a task id the store does not hold has been answered, with
\* another task in the store
C22_Witness ==
  /\ response.kind = "patchTask"
  /\ response.id \notin DOMAIN tasks
  /\ response.code = 404
  /\ DOMAIN tasks # {}

\* C23: every status transition of a task, its creation included, appends an
\* Activity for that task.
C23_TransitionsLogged ==
  [][\A id \in DOMAIN tasks' :
       (id \notin DOMAIN tasks \/ tasks'[id].status # tasks[id].status)
       => /\ Len(activities') = Len(activities) + 1
          /\ Last(activities').taskId = id]_vars

\* activity types that end in _error
ErrorTypes == {"manager_error", "analysis_error", "planner_error", "programmer_error"}

\* this step is the catch block of the manager-analysis callback of p
ManagerAnalysisFailed(p) ==
  /\ procs[p].pc = "manager_ai"
  /\ procs'[p].pc = "idle"
  /\ Len(logged') = Len(logged) + 1
  /\ Last(logged').error = "Manager analysis error"

\* C24: when the manager-analysis collaborator call fails, the task does not
\* transition (status and agentStates stay) and an Activity whose type ends in
\* _error is recorded for the task.
C24_ManagerFailureRecorded ==
  [][\A p \in Procs :
       ManagerAnalysisFailed(p)
       => /\ tasks' = tasks
          /\ Len(activities') = Len(activities) + 1
          /\ Last(activities').taskId = procs[p].task.id
          /\ Last(activities').type \in ErrorTypes]_vars

\* C25: Messages and Activities are append-only: every step keeps each stored
\* Message and Activity, with the field values it was created with, at its
\* place.
C25_AppendOnly ==
  [][/\ Len(messages') >= Len(messages)
     /\ SubSeq(messages', 1, Len(messages)) = messages
     /\ Len(activities') >= Len(activities)
     /\ SubSeq(activities', 1, Len(activities)) = activities]_vars

\* an Activity and a Message were stored and a later handler has appended a
\* second Activity after them
C25_Witness ==
  /\ Len(activities) >= 2
  /\ Len(messages) >= 1
  /\ activities[1].type = "task_created"
  /\ messages[1].type = "plan_feedback"
  /\ Last(activities).type = "plan_approved"

Reverse(s) == [i \in 1..Len(s) |-> s[Len(s) + 1 - i]]
Take(s, n) == SubSeq(s, 1, IF n < Len(s) THEN n ELSE Len(s))
\* the activities created for a user, the latest created first
MostRecentFirst(userId) == Reverse(SelectSeq(activities, LAMBDA a : a.userId = userId))

\* C26: recent-activity retrieval for a user returns only that user's
\* activities, the later created first (also among equal timestamps),
\* truncated to the limit of the caller, or to 10 without one.
C26_RecentActivities ==
  \A userId \in Users, query \in Queries :
    GetActivities(userId, query) =
      Take(MostRecentFirst(userId), IF "limit" \in DOMAIN query THEN query.limit ELSE 10)

\* C27: a chat reply is attributed by the status the task has when the reply
\* is appended (planner when planning, programmer otherwise), also when the
\* status changed while the collaborator call was in flight.
C27_ReplyByCurrentStatus ==
  [][\A p \in Procs :
       (procs[p].pc = "chat_ai" /\ procs'[p] = Idle /\ Len(messages') = Len(messages) + 1)
         => Last(messages').sender =
              IF tasks[procs[p].id].status = "planning" THEN "planner" ELSE "programmer"]_vars

\* C28: when the planner phase of a task whose status is planning completes,
\* the task moves to status review_required with planner complete.
C28_PlannerPlanNeedsReview ==
  [][\A p \in Procs :
       ( /\ procs[p].pc = "planner_timer"
         /\ procs'[p] = Idle
         /\ hasTask(procs[p].task.id)
         /\ tasks[procs[p].task.id].status = "planning" )
         => /\ tasks'[procs[p].task.id].status = "review_required"
            /\ tasks'[procs[p].task.id].agentStates.planner = "complete"]_vars

\* C29: the new_messages event published at the end of chat ingestion carries
\* every message stored for that task at that time, in order, and no message
\* of another task: the full list, not a delta.
C29_NewMessagesFull ==
  [][( /\ Len(published') = Len(published) + 1
       /\ Last(published').type = "new_messages" )
       => Last(published').messages =
            SelectSeq(messages', LAMBDA m : m.taskId = Last(published').taskId)]_vars

\* a second exchange on a task has been published: four messages
C29_Witness ==
  /\ published # <<>>
  /\ Last(published).type = "new_messages"
  /\ Len(Last(published).messages) >= 4
  /\ Last(published).messages = CreatedFor(Last(published).taskId)

\* the fields request-changes may write: the lifecycle fields and the
\* modification time that every update refreshes
LifecycleFields == {"status", "agentStates", "updatedAt"}

EntityOf(ts, b)      == IF b \in DOMAIN ts THEN ts[b] ELSE NoTask
MessagesOf(msgs, b)  == SelectSeq(msgs, LAMBDA m : m.taskId = b)
SubscribersOf(reg, b) == IF b \in DOMAIN reg THEN reg[b] ELSE {}
\* this step is an operation addressed to task id b: a request with b in its
\* path, a handler or timer suspended for b, or a connection opened for b
Addressed(b) ==
  \/ response'.seq # response.seq /\ response'.id = b
  \/ \E p \in Procs :
       /\ procs'[p] # procs[p]
       /\ b \in {procs[p].id, procs'[p].id, procs[p].task.id, procs'[p].task.id}
  \/ \E c \in Conns :
       /\ conns'[c] # conns[c]
       /\ b \in {conns[c].taskId, conns'[c].taskId}

\* C31: operations on different task ids are independent: a step changes the
\* entity, the messages or the subscriber set of a task id only when it is an
\* operation addressed to that task id.
C31_Independence ==
  [][\A b \in TaskIds :
       ( \/ EntityOf(tasks', b) # EntityOf(tasks, b)
         \/ MessagesOf(messages', b) # MessagesOf(messages, b)
         \/ SubscribersOf(taskSockets', b) # SubscribersOf(taskSockets, b) )
         => Addressed(b)]_vars

\* the connections that subscribed to task id t and whose close handler has
\* not run yet
NotYetClosed(t) ==
  { c \in Conns : conns[c].taskId = t /\ conns[c].state \in {"open", "closing"} }

ActiveLike == {"active", "working", "revising"}
\* the highest agent in precedence programmer > planner > manager whose
\* substate is active-like, or none
HighestActive(agentStates) ==
  IF agentStates.programmer \in ActiveLike THEN "programmer"
  ELSE IF agentStates.planner \in ActiveLike THEN "planner"
  ELSE IF agentStates.manager \in ActiveLike THEN "manager"
  ELSE Undefined

\* C33: the displayed active agent of a task is the highest agent in
\* precedence programmer > planner > manager whose substate is active,
\* working or revising, and none only when no agent is in such a substate.
C33_ActiveAgentByPrecedence ==
  \A id \in DOMAIN tasks :
    getActiveAgent(tasks[id]) = HighestActive(tasks[id].agentStates)

\* this step is the end of a callback that task creation scheduled for task id
TimerCallback(p, id) ==
  /\ procs[p].pc \in {"manager_ai", "planner_timer"}
  /\ procs'[p] = Idle
  /\ procs[p].task.id = id

\* C34: once approve has set status executing with manager complete, planner
\* complete and programmer active, no callback scheduled by task creation
\* overwrites the status, sets the planner to active or working, or sets the
\* programmer to waiting.
C34_ApprovalNotOverwritten ==
  [][\A id \in DOMAIN tasks, p \in Procs :
       ( /\ TimerCallback(p, id)
         /\ tasks[id].status = "executing"
         /\ tasks[id].agentStates = ApprovedStates )
         => /\ tasks'[id].status = "executing"
            /\ tasks'[id].agentStates.planner \notin {"active", "working"}
            /\ tasks'[id].agentStates.programmer # "waiting"]_vars

PlanEvents == {"plan_approved", "plan_changes_requested"}

ChatOf(t) == SelectSeq(messages, LAMBDA m : m.taskId = t /\ m.type = "chat")

\* C36: with several chat frames of one task in flight, every agent reply is
\* stored immediately after a user message: the chat messages of a task never
\* hold two replies in a row (user, user, reply, reply).
C36_ReplyFollowsUserMessage ==
  \A t \in TaskIds :
    \A i \in 1..Len(ChatOf(t)) :
      ChatOf(t)[i].sender \in Agents
        => i > 1 /\ ChatOf(t)[i - 1].sender = "user"

IsPrefix(s, t) == Len(s) <= Len(t) /\ SubSeq(t, 1, Len(s)) = s

\* C37: the message lists of the successive new_messages events of a task
\* grow monotonically: every earlier published list is a prefix of every
\* later one.
C37_PublishedListsGrow ==
  \A i, j \in 1..Len(published) :
    ( /\ i < j
      /\ published[i].type = "new_messages"
      /\ published[j].type = "new_messages"
      /\ published[i].taskId = published[j].taskId )
      => IsPrefix(published[i].messages, published[j].messages)

\* two new_messages events of one task, the later with the longer list
C37_Witness ==
  \E i, j \in 1..Len(published) :
    /\ i < j
    /\ published[i].type = "new_messages"
    /\ published[j].type = "new_messages"
    /\ published[i].taskId = published[j].taskId
    /\ published[i].messages # <<>>
    /\ Len(published[i].messages) < Len(published[j].messages)

\* this step is the receipt of a frame on a socket: a handler starts and no
\* HTTP response is sent
FrameReceived == started' # started /\ response' = response

\* C38: a chat frame that cannot be served is ignored: a frame has an effect
\* (a Message appended, the collaborator invoked) only when it is valid JSON
\* of type chat on a connection whose task id is set and stored; no receipt
\* of a frame publishes or changes a subscription, and a frame that fails
\* to parse appends nothing.
C38_UnservableFrameIgnored ==
  [][FrameReceived =>
       /\ published' = published
       /\ taskSockets' = taskSockets
       /\ conns' = conns
       /\ logged' # logged => (messages' = messages /\ procs' = procs)
       /\ (messages' # messages \/ procs' # procs) =>
            \E p \in Procs :
              /\ procs[p] = Idle
              /\ procs' = [procs EXCEPT ![p] = procs'[p]]
              /\ procs'[p].pc = "chat_ai"
              /\ procs'[p].body.json
              /\ procs'[p].body.type = "chat"
              /\ procs'[p].id # 0
              /\ procs'[p].id \in DOMAIN tasks
              /\ procs'[p].id = conns[procs'[p].conn].taskId
              /\ Len(messages') = Len(messages) + 1
              /\ IsUserChat(Last(messages'), procs'[p].id, procs'[p].body.content)]_vars

\* frames were received and ignored: one that is not JSON on a connection of
\* a stored task, with nothing stored, invoked or published
C38_Witness ==
  /\ logged # <<>>
  /\ Last(logged).cause = "SyntaxError"
  /\ Last(logged).id \in DOMAIN tasks
  /\ messages = <<>>
  /\ published = <<>>
  /\ \A p \in Procs : procs[p].pc # "chat_ai"
  /\ \E c \in Conns : conns[c].state = "open" /\ c \in SubscribersOf(taskSockets, Last(logged).id)

\* the manager analysis of task id is scheduled and has not fired
AnalysisScheduled(id) ==
  \E p \in Procs : procs[p].pc = "manager_timer" /\ procs[p].task.id = id
\* task id is in planning with the manager complete, and a task_updated event
\* saying so went to the subscribers of id that were open
PlanningPublished(id) ==
  /\ id \in DOMAIN tasks
  /\ tasks[id].status = "planning"
  /\ tasks[id].agentStates.manager = "complete"
  /\ \E i \in 1..Len(published) :
       /\ published[i].type = "task_updated"
       /\ published[i].taskId = id
       /\ published[i].task = tasks[id]
       /\ published[i].to = { c \in published[i].open : conns[c].taskId = id }

\* C39: when timers fire and the manager analysis returns, every created
\* task eventually has status planning with the manager complete, and a
\* task_updated event for it has then been published to its subscribers.
C39_EventuallyPlanning ==
  \A id \in TaskIds : AnalysisScheduled(id) ~> PlanningPublished(id)

\* a task is in planning after its analysis and a subscriber received the event
C39_Witness ==
  \E id \in TaskIds :
    /\ PlanningPublished(id)
    /\ \E i \in 1..Len(published) :
         /\ published[i].type = "task_updated"
         /\ published[i].taskId = id
         /\ published[i].to # {}

====
